---- MODULE Spec2Model ----
(***************************************************************************)
(* Model of src/app.py: the electricity-statistics dashboard.              *)
(*                                                                         *)
(* The module-level script melts the wide table, derives the startup year  *)
(* set and the startup aggregate, and declares the layout; afterwards the  *)
(* two Dash callbacks update_treemap and update_country_graphs run, one at *)
(* a time, on the module globals and the component properties.             *)
(*                                                                         *)
(* Strings the code inspects character by character (country and region    *)
(* names, column headers) are sequences of one-character strings; a        *)
(* formatted text is the concatenation of its literal pieces and of the    *)
(* interpolated name.  A missing number (NaN) is the empty tuple and a     *)
(* present number n is <<n>>.  A mean is a reduced fraction <<num, den>>.  *)
(* A data frame is the sequence of its rows, except the aggregate, which   *)
(* has one row per group key and is kept as the set of its rows (the row   *)
(* order produced by groupby is not modelled).                             *)
(***************************************************************************)
EXTENDS Integers, Sequences, FiniteSets, TLC

(***************************************************************************)
(* Bounds of the model.                                                    *)
(***************************************************************************)
MaxRows == 2

(* the years the model lets the user drag the slider handles to *)
SliderPicks == {2020, 2021}

(* the options of the feature dropdown the model lets the user choose *)
ChoicePicks == {"net consumption", "imports"}

(***************************************************************************)
(* Characters and str.title().                                             *)
(***************************************************************************)
LowerCase ==
  << "a","b","c","d","e","f","g","h","i","j","k","l","m",
     "n","o","p","q","r","s","t","u","v","w","x","y","z" >>

UpperCase ==
  << "A","B","C","D","E","F","G","H","I","J","K","L","M",
     "N","O","P","Q","R","S","T","U","V","W","X","Y","Z" >>

IndexIn(c, alphabet) ==
  IF \E i \in DOMAIN alphabet : alphabet[i] = c
    THEN CHOOSE i \in DOMAIN alphabet : alphabet[i] = c
    ELSE 0

IsCased(c) == IndexIn(c, LowerCase) > 0 \/ IndexIn(c, UpperCase) > 0

Upper(c) == IF IndexIn(c, LowerCase) > 0 THEN UpperCase[IndexIn(c, LowerCase)] ELSE c

Lower(c) == IF IndexIn(c, UpperCase) > 0 THEN LowerCase[IndexIn(c, UpperCase)] ELSE c

(* str.title(): a cased character is upper-cased when it follows an uncased
   character (or starts the string) and lower-cased otherwise *)
Title(s) ==
  [i \in DOMAIN s |->
     IF i = 1 \/ ~IsCased(s[i - 1]) THEN Upper(s[i]) ELSE Lower(s[i])]

(***************************************************************************)
(* Numbers.                                                                *)
(***************************************************************************)
NaN == << >>

Digits == << "0","1","2","3","4","5","6","7","8","9" >>

IsDigit(c) == IndexIn(c, Digits) > 0

RECURSIVE DecimalValue(_)
DecimalValue(s) ==
  IF s = << >> THEN 0
  ELSE 10 * DecimalValue(SubSeq(s, 1, Len(s) - 1)) + (IndexIn(s[Len(s)], Digits) - 1)

(* pd.to_numeric(x, errors='coerce') on a column header: the number a digit
   string denotes, NaN for a header that is no number *)
ToNumeric(s) ==
  IF s # << >> /\ \A i \in DOMAIN s : IsDigit(s[i]) THEN << DecimalValue(s) >> ELSE NaN

RECURSIVE Gcd(_, _)
Gcd(a, b) == IF b = 0 THEN a ELSE Gcd(b, a % b)

RECURSIVE SumSeq(_)
SumSeq(s) == IF s = << >> THEN 0 ELSE s[1] + SumSeq(Tail(s))

(* a mean that counts a missing entry as a zero *)
Mean_CountingMissing(vals) ==
  LET present == SelectSeq(vals, LAMBDA v : v # NaN)
      nums == [i \in DOMAIN present |-> present[i][1]]
      total == SumSeq(nums)
      g == Gcd(total, Len(vals))
  IN IF present = << >> THEN NaN ELSE << total \div g, Len(vals) \div g >>

(* Series.mean(): NaN entries are skipped; the mean of no number is NaN *)
Mean(vals) ==
  LET present == SelectSeq(vals, LAMBDA v : v # NaN)
      nums == [i \in DOMAIN present |-> present[i][1]]
      total == SumSeq(nums)
      g == Gcd(total, Len(nums))
  IN IF present = << >> THEN NaN ELSE << total \div g, Len(nums) \div g >>

(***************************************************************************)
(* The wide table read at startup (after the string columns are stripped   *)
(* and the year columns coerced): a header row and identity rows.          *)
(***************************************************************************)
Togo == << "T","o","g","o" >>

IsleOfMan == << "I","s","l","e"," ","o","f"," ","M","a","n" >>

Africa == << "A","f","r","i","c","a" >>

Europe == << "E","u","r","o","p","e" >>

(* a string that names no country of any table *)
Narnia == << "N","a","r","n","i","a" >>

H2020 == << "2","0","2","0" >>

H2021 == << "2","0","2","1" >>

(* a column header that is no year *)
HTotal == << "T","o","t","a","l" >>

(* the identity columns of the rows a table is built from *)
Identities ==
  << [Country |-> IsleOfMan, Features |-> "imports",         Region |-> Europe],
     [Country |-> Togo,      Features |-> "net consumption", Region |-> Africa],
     [Country |-> Togo,      Features |-> "imports",         Region |-> Africa] >>

(* the header rows of the tables: two of three columns, in file order *)
HeaderRows == { << H2020, H2021 >>, << H2020, HTotal >>, << HTotal, H2021 >> }

(* the number in the cell of row i and column j, when the file has one:
   10, 20 in the first row, 30, 40 in the second, ... *)
CellNumber(h, i, j) == 10 * (Len(h) * (i - 1) + j)

(* the tables: a header row, the first n identity rows, and in each cell
   either its number or, after pd.to_numeric(errors='coerce') of a cell
   that is no number, NaN *)
WideTables ==
  UNION { { [columns |-> h,
             rows |-> [i \in 1..n |->
                         [Country  |-> Identities[i].Country,
                          Features |-> Identities[i].Features,
                          Region   |-> Identities[i].Region,
                          cells    |-> [j \in DOMAIN h |->
                                          IF << i, j >> \in missing
                                            THEN NaN
                                            ELSE << CellNumber(h, i, j) >>]]]] :
            missing \in SUBSET ((1..n) \X DOMAIN h) } :
          h \in HeaderRows, n \in 1..MaxRows }

(***************************************************************************)
(* Melter and Aggregator.                                                  *)
(***************************************************************************)
(* pd.melt(id_vars=[Country, Features, Region]): one long row per identity
   row and value column, column by column; then the Year column is coerced
   with pd.to_numeric(errors='coerce') and every row is kept *)
Melt(wide) ==
  LET n == Len(wide.rows)
      y == Len(wide.columns)
  IN [k \in 1..(n * y) |->
        LET col == ((k - 1) \div n) + 1
            row == ((k - 1) % n) + 1
        IN [Country  |-> wide.rows[row].Country,
            Features |-> wide.rows[row].Features,
            Region   |-> wide.rows[row].Region,
            Year     |-> ToNumeric(wide.columns[col]),
            Value    |-> wide.rows[row].cells[col]]]

Range(s) == { s[i] : i \in DOMAIN s }

(* Series.unique(): the distinct values in order of first appearance *)
Unique(s) ==
  LET first == { i \in DOMAIN s : \A j \in 1..(i - 1) : s[j] # s[i] }
      RECURSIVE Pick(_)
      Pick(i) == IF i > Len(s) THEN << >>
                 ELSE IF i \in first THEN << s[i] >> \o Pick(i + 1) ELSE Pick(i + 1)
  IN Pick(1)

(* Series.isin(values): membership; a NaN entry matches a NaN value *)
IsIn(v, values) == v \in Range(values)

(* list(range(lo, hi + 1)) *)
YearList(lo, hi) == [i \in 1..(hi - lo + 1) |-> << lo + i - 1 >>]

(* melted[melted.Year.isin(years)].groupby([Country, Region, Features])
   .Value.mean().reset_index(): one row per key among the rows kept by the
   year filter, whose Value is the mean of the non-missing values of the
   group (NaN when the group has none) *)
Aggregate(melted, years) ==
  LET kept == SelectSeq(melted, LAMBDA r : IsIn(r.Year, years))
      keys == { << kept[i].Country, kept[i].Region, kept[i].Features >> : i \in DOMAIN kept }
      group(k) == SelectSeq(kept, LAMBDA r : << r.Country, r.Region, r.Features >> = k)
  IN { [Country  |-> k[1],
        Region   |-> k[2],
        Features |-> k[3],
        Value    |-> Mean([i \in DOMAIN group(k) |-> group(k)[i].Value])] : k \in keys }

(***************************************************************************)
(* View selectors: the data frame each chart is drawn from.                *)
(***************************************************************************)
create_treemap(df, treemap_val) == { r \in df : r.Features = treemap_val }

CountryChart(melted, country, features, years) ==
  SelectSeq(melted, LAMBDA r : /\ r.Country = country
                               /\ r.Features \in features
                               /\ IsIn(r.Year, years)
                               /\ r.Value # NaN)

(* a bar chart that takes the empty country for "every country" *)
create_barchart_AllWhenEmpty(melted, country, years) ==
  SelectSeq(melted, LAMBDA r : /\ (country = << >> \/ r.Country = country)
                               /\ r.Features \in {"imports", "exports"}
                               /\ IsIn(r.Year, years)
                               /\ r.Value # NaN)

create_barchart(melted, country, years) ==
  CountryChart(melted, country, {"imports", "exports"}, years)

create_dotplot(melted, country, years) ==
  CountryChart(melted, country, {"net generation", "net consumption"}, years)

create_piechart(melted, country, years) ==
  CountryChart(melted, country, {"imports", "net generation", "distribution losses"}, years)

(* melted_data['Country'].unique() *)
CountryVocabulary(melted) == { melted[i].Country : i \in DOMAIN melted }

(***************************************************************************)
(* Python values of the callbacks' inputs.                                 *)
(***************************************************************************)
(* None is the empty tuple and any other value v is <<v>> *)
PyNone == << >>

Some(v) == << v >>

(* a dict is a function of its keys; {} is the empty function *)
EmptyDict == << >>

ClickOn(label) == Some([points |-> << [label |-> label] >>])

(* click payloads without a label: no points key, no point, no label key *)
MalformedClicks ==
  { Some(EmptyDict), Some([points |-> << >>]), Some([points |-> << EmptyDict >>]) }

(* selected_data['points'][0]['label'] raises on such a dict *)
LabelRaises(d) ==
  \/ "points" \notin DOMAIN d
  \/ Len(d["points"]) = 0
  \/ "label" \notin DOMAIN d["points"][1]

(***************************************************************************)
(* State.                                                                  *)
(***************************************************************************)
VARIABLES
  pc,                \* position of the module-level script / the page
  triggered_id,      \* the input that triggered the latest callback
  data,              \* the wide table
  melted_data,       \* the long table
  years_to_average,  \* global: the selected years
  grouped_df,        \* global: the cached aggregate
  treemap_value,     \* global: the selected feature
  search_value,      \* treemap-search.value
  choice_value,      \* treemap-choice.value
  slider_value,      \* year-slider.value
  tree,              \* main-treemap.figure (its data frame)
  year_text,         \* year-text.children
  bar_style,         \* country-barchart.style
  dot_style,         \* country-dotplot.style
  pie_style,         \* country-piechart.style
  test_text,         \* test-text.children
  bar,               \* country-barchart.figure (its data frame)
  dot,               \* country-dotplot.figure (its data frame)
  pie                \* country-piechart.figure (its data frame)

globals == << years_to_average, grouped_df, treemap_value >>

inputs == << search_value, choice_value, slider_value >>

treemap_outputs == << tree, year_text >>

styles == << bar_style, dot_style, pie_style >>

figures == << bar, dot, pie >>

vars == << pc, triggered_id, data, melted_data, globals, inputs, treemap_outputs, styles, test_text, figures >>

(* the slider's min and max *)
SliderMin == 1980

SliderMax == 2021

(* a style that was never set shows the component *)
Unset == "unset"

DisplayNone == "none"

DisplayBlock == "block"

DownArrow == "U+2193"

(* figure={} of the layout; a figure made by plotly is <<its data frame>> *)
EmptyFigure == << >>

Figure(frame) == << frame >>

Init ==
  /\ pc = "melt"
  /\ triggered_id = PyNone
  /\ data \in WideTables
  /\ melted_data = << >>
  /\ years_to_average = << >>
  /\ grouped_df = {}
  /\ treemap_value = "net consumption"
  /\ search_value = PyNone
  /\ choice_value = "net consumption"
  /\ slider_value = << SliderMin, SliderMax >>
  /\ tree = {}
  /\ year_text = << >>
  /\ bar_style = Unset
  /\ dot_style = Unset
  /\ pie_style = Unset
  /\ test_text = << >>
  /\ bar = EmptyFigure
  /\ dot = EmptyFigure
  /\ pie = EmptyFigure

(***************************************************************************)
(* The module-level script.                                                *)
(***************************************************************************)
(* lines 96-97 and 237-238: the aggregate of the long table over years *)
Regroup_Stale(years) == Aggregate(melted_data, years_to_average)

Regroup(years) == Aggregate(melted_data, years)

MeltData ==
  /\ pc = "melt"
  /\ melted_data' = Melt(data)
  /\ pc' = "aggregate"
  /\ UNCHANGED << triggered_id, data, globals, inputs, treemap_outputs, styles, test_text, figures >>

StartupAggregate ==
  /\ pc = "aggregate"
  /\ years_to_average' = Unique([i \in DOMAIN melted_data |-> melted_data[i].Year])
  /\ grouped_df' = Regroup(years_to_average')
  /\ pc' = "page"
  /\ UNCHANGED << triggered_id, data, melted_data, treemap_value, inputs, treemap_outputs, styles,
                  test_text, figures >>

(***************************************************************************)
(* Callback update_treemap.                                                *)
(***************************************************************************)
(* searched in melted_data['Country'].unique() *)
IsKnownCountry(searched) ==
  searched # PyNone /\ searched[1] \in CountryVocabulary(melted_data)

(* a selector that filters on any search string, known or not *)
TreeFor_NoVocabularyCheck(searched, df, feature) ==
  IF searched # PyNone
    THEN create_treemap({ r \in df : r.Country = Title(searched[1]) }, feature)
    ELSE create_treemap(df, feature)

(* the data frame the treemap is drawn from, in each of the three branches *)
TreeFor(searched, df, feature) ==
  IF IsKnownCountry(searched)
    THEN create_treemap({ r \in df : r.Country = Title(searched[1]) }, feature)
    ELSE create_treemap(df, feature)

(* a callback that leaves the charts alone when the slider triggered it *)
HideOutputs_KeepOnYearChange(trigger) ==
  IF trigger = Some("year-slider")
    THEN UNCHANGED << bar_style, dot_style, pie_style, test_text >>
    ELSE /\ bar_style' = DisplayNone
         /\ dot_style' = DisplayNone
         /\ pie_style' = DisplayNone
         /\ test_text' = << >>

(* a callback that leaves the status text alone on a search or a choice *)
HideOutputs_KeepTextOnSearch(trigger) ==
  /\ bar_style' = DisplayNone
  /\ dot_style' = DisplayNone
  /\ pie_style' = DisplayNone
  /\ IF trigger \in { Some("treemap-search"), Some("treemap-choice") }
       THEN UNCHANGED test_text
       ELSE test_text' = << >>

(* lines 244-246: the styles and the status text the callback returns *)
HideOutputs(trigger) ==
  /\ bar_style' = DisplayNone
  /\ dot_style' = DisplayNone
  /\ pie_style' = DisplayNone
  /\ test_text' = << >>

update_treemap(trigger, searched, selected_value, selected_range) ==
  /\ triggered_id' = trigger
  /\ IF trigger = Some("treemap-search")
       THEN /\ tree' = TreeFor(searched, grouped_df, treemap_value)
            /\ UNCHANGED << years_to_average, grouped_df, treemap_value >>
       ELSE IF trigger = Some("treemap-choice")
         THEN /\ treemap_value' = selected_value
              /\ tree' = TreeFor(searched, grouped_df, treemap_value')
              /\ UNCHANGED << years_to_average, grouped_df >>
         ELSE /\ years_to_average' = YearList(selected_range[1], selected_range[2])
              /\ grouped_df' = Regroup(years_to_average')
              /\ tree' = TreeFor(searched, grouped_df', treemap_value)
              /\ UNCHANGED treemap_value
  /\ year_text' = << "Selected Year Range: ", selected_range[1], " - ", selected_range[2] >>
  /\ HideOutputs(trigger)
  /\ UNCHANGED << data, melted_data, figures >>

(* the values the model lets the user put in the search box: nothing, the
   countries of the tables, a capitalised variant and an unknown name *)
IsleOfManCapitalised == << "I","s","l","e"," ","O","f"," ","M","a","n" >>

SearchPicks ==
  { PyNone, Some(Togo), Some(IsleOfMan), Some(IsleOfManCapitalised), Some(Narnia) }

(* Dash calls the callback once when the page loads, triggered by no input *)
PageLoad ==
  /\ pc = "page"
  /\ pc' = "serve"
  /\ UNCHANGED inputs
  /\ update_treemap(PyNone, search_value, choice_value, slider_value)

Search ==
  /\ pc = "serve"
  /\ \E s \in SearchPicks \ {search_value} :
       /\ search_value' = s
       /\ UNCHANGED << pc, choice_value, slider_value >>
       /\ update_treemap(Some("treemap-search"), s, choice_value, slider_value)

Choice ==
  /\ pc = "serve"
  /\ \E f \in ChoicePicks \ {choice_value} :
       /\ choice_value' = f
       /\ UNCHANGED << pc, search_value, slider_value >>
       /\ update_treemap(Some("treemap-choice"), search_value, f, slider_value)

YearSlider ==
  /\ pc = "serve"
  /\ \E lo \in SliderPicks, hi \in SliderPicks :
       /\ lo <= hi
       /\ << lo, hi >> # slider_value
       /\ slider_value' = << lo, hi >>
       /\ UNCHANGED << pc, search_value, choice_value >>
       /\ update_treemap(Some("year-slider"), search_value, choice_value, << lo, hi >>)

(***************************************************************************)
(* Callback update_country_graphs.                                         *)
(***************************************************************************)
(* a handler that shows the charts for a region too *)
ClickStyle_AlwaysBlock(known) == DisplayBlock

(* lines 267, 270, 276, 279: the style of the three charts *)
ClickStyle(known) == IF known THEN DisplayBlock ELSE DisplayNone

update_country_graphs(selected_data) ==
  LET raised == selected_data # PyNone /\ LabelRaises(selected_data[1])
      label == IF selected_data # PyNone /\ ~raised
                 THEN selected_data[1]["points"][1]["label"] ELSE << >>
      known == selected_data # PyNone /\ ~raised
                 /\ label \in CountryVocabulary(melted_data)
      country == IF selected_data # PyNone /\ ~raised THEN label ELSE << >>
      text == IF selected_data = PyNone \/ raised THEN << >>
              ELSE IF known
                THEN << DownArrow, " Statistics for selected country: " >> \o country
                       \o << " ", DownArrow >>
                ELSE << "Selected Region: " >> \o country
      hide == ClickStyle(known)
  IN /\ triggered_id' = Some("main-treemap")
     /\ test_text' = text
     /\ bar_style' = hide
     /\ dot_style' = hide
     /\ pie_style' = hide
     /\ bar' = Figure(create_barchart(melted_data, country, years_to_average))
     /\ dot' = Figure(create_dotplot(melted_data, country, years_to_average))
     /\ pie' = Figure(create_piechart(melted_data, country, years_to_average))
     /\ UNCHANGED << pc, data, melted_data, globals, inputs, treemap_outputs >>

(* the labels of the treemap nodes: the countries and regions of the tables *)
ClickLabels == { Togo, IsleOfMan, Africa, Europe }

ClickPayloads == { PyNone } \cup MalformedClicks \cup { ClickOn(l) : l \in ClickLabels }

Click ==
  /\ pc = "serve"
  /\ \E selected_data \in ClickPayloads : update_country_graphs(selected_data)

Next ==
  \/ MeltData
  \/ StartupAggregate
  \/ PageLoad
  \/ Search
  \/ Choice
  \/ YearSlider
  \/ Click

Spec == Init /\ [][Next]_vars

(***************************************************************************)
(* Properties.                                                             *)
(***************************************************************************)
(* the aggregate and the year set have been computed *)
Computed == pc \in { "page", "serve" }

KeyOf(r) == << r.Country, r.Region, r.Features >>

(* the long-table rows of key k with a value and a year among years *)
Contributing(k, years) ==
  { i \in DOMAIN melted_data :
      /\ KeyOf(melted_data[i]) = k
      /\ melted_data[i].Value # NaN
      /\ IsIn(melted_data[i].Year, years) }

RECURSIVE SumOfValues(_)
SumOfValues(rows) ==
  IF rows = {} THEN 0
  ELSE LET i == CHOOSE j \in rows : TRUE
       IN melted_data[i].Value[1] + SumOfValues(rows \ {i})

AllHidden ==
  bar_style = DisplayNone /\ dot_style = DisplayNone /\ pie_style = DisplayNone

AllShown ==
  bar_style = DisplayBlock /\ dot_style = DisplayBlock /\ pie_style = DisplayBlock

CountryText(country) ==
  << DownArrow, " Statistics for selected country: " >> \o country \o << " ", DownArrow >>

(* the three charts are shown under the status text of a known country *)
CountryDrilldown ==
  /\ AllShown
  /\ \E c \in CountryVocabulary(melted_data) : test_text = CountryText(c)

(* a chart drawn from at least one row *)
HasRows(figure) == figure # EmptyFigure /\ figure[1] # << >>

(* C1: in every state where the aggregate is computed, each of its rows has
   a defined mean and belongs to a key with at least one long-table row
   that has a value and a year among the selected years *)
C1_NoGroupWithoutContribution ==
  Computed =>
    \A r \in grouped_df :
      r.Value # NaN /\ Contributing(KeyOf(r), years_to_average) # {}

(* C2: whenever the search box holds a country of the vocabulary, the
   treemap is drawn from exactly the aggregate rows of that country and of
   the selected feature *)
C2_KnownSearchSelectsItsRows ==
  (pc = "serve" /\ IsKnownCountry(search_value)) =>
    tree = { r \in grouped_df :
               r.Country = search_value[1] /\ r.Features = treemap_value }

(* C3: a year-slider event keeps the interaction state: CountryDrilldown
   before it if and only if CountryDrilldown after it *)
C3_YearChangeKeepsState ==
  [][YearSlider => (CountryDrilldown <=> CountryDrilldown')]_vars

(* C3, amended: a year-slider event always ends in Overview, with the three
   charts hidden and the status text empty *)
C3_YearChangeEndsInOverview ==
  [][YearSlider => (AllHidden' /\ test_text' = << >> /\ ~CountryDrilldown')]_vars

(* the slider was moved while charts drawn for a clicked country exist *)
C3_YearChangedAfterDrilldown ==
  /\ triggered_id = Some("year-slider")
  /\ HasRows(bar)
  /\ AllHidden

(* C4: a search or a feature choice leaves the three visibility flags and
   the status text as they were *)
C4_SearchAndChoiceKeepCharts ==
  [][(Search \/ Choice) => UNCHANGED << bar_style, dot_style, pie_style, test_text >>]_vars

(* C4, amended: a search or a feature choice leaves the three chart data
   frames as they were, hides the three charts and empties the status text *)
C4_SearchAndChoiceHideCharts ==
  [][(Search \/ Choice) =>
       (UNCHANGED << bar, dot, pie >> /\ AllHidden' /\ test_text' = << >>)]_vars

(* a search or a choice happened while charts of a clicked country exist *)
C4_SearchedAfterDrilldown ==
  /\ triggered_id \in { Some("treemap-search"), Some("treemap-choice") }
  /\ HasRows(dot)
  /\ AllHidden

(* C5: a click on label l shows the three charts under a text that starts
   with the indicator and "Statistics for selected country: l" when l is a
   known country, and hides them under "Selected Region: l" otherwise; the
   three styles are equal in every state *)
C5_ClickShowsOrHides ==
  [][/\ \A l \in ClickLabels :
          update_country_graphs(ClickOn(l)) =>
            IF l \in CountryVocabulary(melted_data)
              THEN /\ AllShown'
                   /\ Len(test_text') >= 2 + Len(l)
                   /\ test_text'[1] = DownArrow
                   /\ test_text'[2] = " Statistics for selected country: "
                   /\ SubSeq(test_text', 3, 2 + Len(l)) = l
              ELSE /\ AllHidden'
                   /\ test_text' = << "Selected Region: " >> \o l
     /\ bar_style' = dot_style' /\ dot_style' = pie_style']_vars

(* a country was clicked and its charts are shown *)
C5_CountryClicked ==
  /\ triggered_id = Some("main-treemap")
  /\ test_text = CountryText(IsleOfMan)
  /\ AllShown
  /\ HasRows(bar)

(* C6: whenever the search box holds no country of the vocabulary, the
   treemap is drawn from all aggregate rows of the selected feature *)
C6_UnknownSearchFallsBack ==
  (pc = "serve" /\ ~IsKnownCountry(search_value)) =>
    tree = { r \in grouped_df : r.Features = treemap_value }

(* an unknown name was searched and the treemap shows some, not all, rows *)
C6_UnknownSearched ==
  /\ triggered_id = Some("treemap-search")
  /\ search_value = Some(Narnia)
  /\ tree # {}
  /\ tree # grouped_df

(* C7: a click without a payload or without a label draws the three charts
   from no row, hides them, and leaves the selected years, the selected
   feature and the aggregate as they were *)
C7_MalformedClickRecovers ==
  [][\A p \in { PyNone } \cup MalformedClicks :
       update_country_graphs(p) =>
         /\ bar' = Figure(<< >>) /\ dot' = Figure(<< >>) /\ pie' = Figure(<< >>)
         /\ AllHidden'
         /\ UNCHANGED << years_to_average, treemap_value, grouped_df >>]_vars

(* a click without a label was handled in a table with import rows *)
C7_MalformedClicked ==
  /\ triggered_id = Some("main-treemap")
  /\ test_text = << >>
  /\ bar = Figure(<< >>)
  /\ \E i \in DOMAIN melted_data :
       melted_data[i].Features = "imports" /\ melted_data[i].Value # NaN

(* C8: the long table has no row with a missing Year, and as many rows as
   identity rows times headers that parse as a year *)
C8_UnparseableYearsDropped ==
  pc # "melt" =>
    /\ \A i \in DOMAIN melted_data : melted_data[i].Year # NaN
    /\ Len(melted_data) =
         Len(data.rows) *
           Cardinality({ j \in DOMAIN data.columns : ToNumeric(data.columns[j]) # NaN })

(* C9: every key with a contributing row has exactly one aggregate row, and
   its value is the sum of the contributing values over their number *)
C9_MeanOfContributingValues ==
  Computed =>
    \A i \in DOMAIN melted_data :
      LET k == KeyOf(melted_data[i])
          rows == Contributing(k, years_to_average)
          found == { r \in grouped_df : KeyOf(r) = k }
      IN rows # {} =>
           /\ Cardinality(found) = 1
           /\ \A r \in found :
                /\ r.Value # NaN
                /\ r.Value[1] * Cardinality(rows) = r.Value[2] * SumOfValues(rows)

(* the range 2020-2021 is selected and a mean of 10 and 20 is 15 *)
C9_MeanFifteen ==
  /\ triggered_id = Some("year-slider")
  /\ slider_value = << 2020, 2021 >>
  /\ \E r \in grouped_df : r.Country = IsleOfMan /\ r.Value = << 15, 1 >>

(* C10: once computed, the long table is the melted wide table and stays
   so, the cached aggregate is the Aggregator's result for the long table
   and the selected years, the selected years are those of the slider once
   the page is served, and a callback triggered by the search box, the
   feature choice or a click leaves the aggregate, the selected years and
   the long table as they were *)
C10_CacheCoherent ==
  /\ [](/\ Computed =>
            /\ melted_data = Melt(data)
            /\ grouped_df = Aggregate(melted_data, years_to_average)
        /\ pc = "serve" =>
            Range(years_to_average) = { << y >> : y \in slider_value[1]..slider_value[2] })
  /\ [][triggered_id' \in { Some("treemap-search"), Some("treemap-choice"),
                            Some("main-treemap") } =>
          UNCHANGED << grouped_df, years_to_average, melted_data >>]_vars

(* after a click and a slider move, a feature was chosen *)
C10_ChoiceAfterYearChange ==
  /\ triggered_id = Some("treemap-choice")
  /\ slider_value = << 2021, 2021 >>
  /\ grouped_df # {}
  /\ bar # EmptyFigure

====
